---- MODULE Spec2Model ----
(***************************************************************************)
(* Message decoding and attachment chunking of mcp_imap_server/imap.py.    *)
(*                                                                         *)
(* A parsed message (email.message.Message) is a tree of parts.  A part is *)
(* a record                                                                *)
(*   ctype     - get_content_type()                                        *)
(*   disp      - get_content_disposition(), None when the header is absent *)
(*   filename  - get_filename(), None when no filename/name parameter      *)
(*   charset   - the charset parameter of a text part                      *)
(*   payload   - the transfer-decoded bytes of a leaf part                 *)
(*   multipart - is_multipart(): the payload is a list of sub-parts        *)
(*   kids      - the sub-parts of a multipart part, in document order      *)
(* Python's 0-based indices and offsets are kept in arguments and results; *)
(* TLA+ sequences are 1-based, so element i of a Python list is s[i + 1].  *)
(***************************************************************************)
EXTENDS Integers, Sequences, FiniteSets, TLC

VARIABLES
    msg,      \* the parsed message the operations are applied to
    op,       \* the operation whose result `res` holds, "idle" between calls
    args,     \* the arguments of that call
    res,      \* what the call returned, or the error it raised
    listing,  \* the last result of list_attachments the caller has seen
    pg,       \* the caller's bookkeeping of a chunked download
    session   \* the IMAP session of imap_connect and of the with-block using it

vars == <<msg, op, args, res, listing, pg, session>>

\* Python's None, for attributes and arguments that hold a string or None.
None == "<None>"

\* Truthiness of an optional string: `if filename:` is false on None and "".
Truthy(s) == s # None /\ s # ""

-----------------------------------------------------------------------------
(* Bounds of the model *)

\* longest decoded attachment payload, in bytes (chunking universe)
MaxPayload == 3
\* most sub-parts of the multipart root (chunking universe)
MaxChunkKids == 1
\* most sub-parts of the multipart root (selection universe)
MaxKids == 2
\* longest body payload, in bytes (body universe)
MaxBody == 2
\* most sub-parts of the multipart root (body universe)
MaxBodyKids == 2

-----------------------------------------------------------------------------
(* email.message.Message: the operations the code uses *)

is_multipart(part) == part.multipart

get_filename(part) == part.filename

get_content_type(part) == part.ctype

get_content_disposition(part) == part.disp

\* get_payload(decode=True) or b"": a multipart part yields None, so b"".
get_payload_or_empty(part) == IF is_multipart(part) THEN <<>> ELSE part.payload

RECURSIVE walk(_)
RECURSIVE walk_all(_)
\* a walk that yields the sub-parts only, never the part it starts from
walk_SkipRoot(part) ==
    IF is_multipart(part) THEN walk_all(part.kids) ELSE <<>>

\* Message.walk(): the part itself, then the walk of each sub-part in order.
walk(part) ==
    <<part>> \o (IF is_multipart(part) THEN walk_all(part.kids) ELSE <<>>)

walk_all(parts) ==
    IF parts = <<>> THEN <<>> ELSE walk(Head(parts)) \o walk_all(Tail(parts))

-----------------------------------------------------------------------------
(* iter_attachment_parts *)

RECURSIVE WithFilename(_)
\* the parts of a walk that carry a truthy filename, in walk order
WithFilename(s) ==
    IF s = <<>> THEN <<>>
    ELSE (IF Truthy(get_filename(Head(s))) THEN <<Head(s)>> ELSE <<>>)
         \o WithFilename(Tail(s))

iter_attachment_parts(m) == WithFilename(walk(m))

-----------------------------------------------------------------------------
(* get_attachment_bytes *)

\* a raised ValueError: its kind and the values its message states
Error(kind, info) == [err |-> kind, info |-> info]

\* FirstMatch without the break: the last match wins
FirstMatch_Last(parts, filename) ==
    LET matches == {i \in 1..Len(parts) : get_filename(parts[i]) = filename}
    IN  IF matches = {} THEN -1
        ELSE (CHOOSE i \in matches : \A j \in matches : i >= j) - 1

\* the 0-based position of the first part whose filename equals `filename`,
\* or -1 when the loop ends without a match (selected_part stays None)
FirstMatch(parts, filename) ==
    LET matches == {i \in 1..Len(parts) : get_filename(parts[i]) = filename}
    IN  IF matches = {} THEN -1
        ELSE (CHOOSE i \in matches : \A j \in matches : i <= j) - 1

\* SelectAttachment rejecting the last valid index
SelectAttachment_RejectLast(parts, attachment_index, filename) ==
    IF filename # None
    THEN IF FirstMatch(parts, filename) = -1
         THEN Error("filename_not_found", <<filename>>)
         ELSE [err |-> "none", index |-> FirstMatch(parts, filename)]
    ELSE IF attachment_index < 0 \/ attachment_index >= Len(parts) - 1
         THEN Error("index_out_of_range", <<attachment_index, Len(parts)>>)
         ELSE [err |-> "none", index |-> attachment_index]

\* lines 168-185: the selection; err = "none" and the selected 0-based index,
\* or the ValueError raised
SelectAttachment(parts, attachment_index, filename) ==
    IF filename # None
    THEN IF FirstMatch(parts, filename) = -1
         THEN Error("filename_not_found", <<filename>>)
         ELSE [err |-> "none", index |-> FirstMatch(parts, filename)]
    ELSE IF attachment_index < 0 \/ attachment_index >= Len(parts)
         THEN Error("index_out_of_range", <<attachment_index, Len(parts)>>)
         ELSE [err |-> "none", index |-> attachment_index]

\* CheckOffset rejecting the offset equal to the size
CheckOffset_RejectEnd(offset_bytes, original_size) ==
    IF offset_bytes < 0 THEN "offset_negative"
    ELSE IF offset_bytes >= original_size THEN "offset_out_of_range"
    ELSE "none"

\* lines 190-195: the offset checks; "none" when the offset is accepted
CheckOffset(offset_bytes, original_size) ==
    IF offset_bytes < 0 THEN "offset_negative"
    ELSE IF offset_bytes > original_size THEN "offset_out_of_range"
    ELSE "none"

\* SliceFrom starting one byte late
SliceFrom_OffByOne(payload_all, offset_bytes) ==
    SubSeq(payload_all, offset_bytes + 2, Len(payload_all))

\* line 197: payload_all[offset_bytes:] for 0 <= offset_bytes <= len
SliceFrom(payload_all, offset_bytes) ==
    SubSeq(payload_all, offset_bytes + 1, Len(payload_all))

\* MustTruncate with >= for >
MustTruncate_AtLimit(payload, max_bytes) ==
    max_bytes # 0 /\ max_bytes > 0 /\ Len(payload) >= max_bytes

\* line 200: the condition under which the slice is cut to max_bytes
MustTruncate(payload, max_bytes) ==
    max_bytes # 0 /\ max_bytes > 0 /\ Len(payload) > max_bytes

\* lines 199-202: the returned payload and the truncated flag
Cap(payload, max_bytes) ==
    IF MustTruncate(payload, max_bytes)
    THEN [payload |-> SubSeq(payload, 1, max_bytes), truncated |-> TRUE]
    ELSE [payload |-> payload, truncated |-> FALSE]

\* IsDone with > for >=
IsDone_Strict(next_offset, original_size) == next_offset > original_size

\* line 215: done
IsDone(next_offset, original_size) == next_offset >= original_size

\* lines 204-217: the returned dict
Chunk(selected_index, selected_part, original_size, offset_bytes, capped) ==
    LET next_offset == offset_bytes + Len(capped.payload)
    IN  [err               |-> "none",
         index             |-> IF selected_index = 0 THEN 0 ELSE selected_index,
         filename          |-> get_filename(selected_part),
         content_type      |-> get_content_type(selected_part),
         size_bytes        |-> original_size,
         offset_bytes      |-> offset_bytes,
         returned_bytes    |-> Len(capped.payload),
         truncated         |-> capped.truncated,
         next_offset_bytes |-> next_offset,
         done              |-> IsDone(next_offset, original_size),
         content_bytes     |-> capped.payload]

get_attachment_bytes(m, attachment_index, filename, offset_bytes, max_bytes) ==
    LET parts == iter_attachment_parts(m)
        sel   == SelectAttachment(parts, attachment_index, filename)
    IN  IF parts = <<>> THEN Error("no_attachments", <<>>)
        ELSE IF sel.err # "none" THEN sel
        ELSE LET selected_part == parts[sel.index + 1]
                 payload_all   == get_payload_or_empty(selected_part)
                 original_size == Len(payload_all)
                 offset_err    == CheckOffset(offset_bytes, original_size)
             IN  IF offset_err # "none"
                 THEN Error(offset_err, <<offset_bytes, original_size>>)
                 ELSE Chunk(sel.index, selected_part, original_size, offset_bytes,
                            Cap(SliceFrom(payload_all, offset_bytes), max_bytes))

-----------------------------------------------------------------------------
(* list_attachments *)

\* Descriptor measuring the stored payload without the `or b""` of a
\* multipart part: one more than the decoded length there
Descriptor_RawSize(part) ==
    [filename     |-> get_filename(part),
     content_type |-> get_content_type(part),
     size_bytes   |-> IF is_multipart(part) THEN 1 ELSE Len(part.payload)]

\* lines 272-280: the descriptor of one attachment part
Descriptor(part) ==
    [filename     |-> get_filename(part),
     content_type |-> get_content_type(part),
     size_bytes   |-> Len(get_payload_or_empty(part))]

list_attachments(m) ==
    LET parts == iter_attachment_parts(m)
    IN  [i \in 1..Len(parts) |-> Descriptor(parts[i])]

-----------------------------------------------------------------------------
(* extract_bodies *)

\* A str is a sequence of code points.  "\n\n[truncated]":
Marker == <<10, 10, 91, 116, 114, 117, 110, 99, 97, 116, 101, 100, 93>>

\* U+FFFD, what errors="replace" puts for an undecodable byte
Replacement == 65533

\* the charsets bytes.decode() knows, of those the messages declare
KnownCharsets == {"utf-8", "iso-8859-1", "ascii"}

\* bytes.decode(charset, errors="replace") for payloads whose bytes >= 128
\* stand alone: ISO-8859-1 maps every byte to its code point, ASCII and
\* UTF-8 replace a lone byte >= 128
Decode(payload, charset) ==
    [i \in 1..Len(payload) |->
        IF charset = "iso-8859-1" \/ payload[i] < 128 THEN payload[i] ELSE Replacement]

\* lines 231-235: part.get_content() or "", which decodes the payload with
\* the declared charset (ASCII when none is declared) and raises LookupError
\* on a charset Python does not know; then the payload as UTF-8
BodyOf(part) ==
    LET charset == IF part.charset = None THEN "ascii" ELSE part.charset
    IN  IF charset \in KnownCharsets
        THEN Decode(get_payload_or_empty(part), charset)
        ELSE Decode(get_payload_or_empty(part), "utf-8")

\* line 227: (part.get_content_disposition() or "").lower()
Disposition(part) ==
    IF get_content_disposition(part) = None THEN "" ELSE get_content_disposition(part)

\* line 228: the parts the loop passes over
Skipped(part) ==
    Disposition(part) \in {"attachment", "inline"} /\ Truthy(get_filename(part))

\* line 230 (236): the part is taken for a field of its type that is unset
Takes(part, ctype, body) == get_content_type(part) = ctype /\ body = <<>>

RECURSIVE ScanParts(_, _, _)
\* lines 225-243: the loop over msg.walk(), from the parts left to visit and
\* the text and html found so far
ScanParts(parts, text, html) ==
    IF parts = <<>> THEN [text |-> text, html |-> html]
    ELSE LET part == Head(parts)
         IN  IF Skipped(part) THEN ScanParts(Tail(parts), text, html)
             ELSE LET text2 == IF Takes(part, "text/plain", text) THEN BodyOf(part) ELSE text
                      html2 == IF Takes(part, "text/html", html) THEN BodyOf(part) ELSE html
                  IN  IF text2 # <<>> /\ html2 # <<>>
                      THEN [text |-> text2, html |-> html2]
                      ELSE ScanParts(Tail(parts), text2, html2)

\* lines 245-257: a message that is not multipart
SinglePart(m) ==
    IF get_content_type(m) = "text/plain" THEN [text |-> BodyOf(m), html |-> <<>>]
    ELSE IF get_content_type(m) = "text/html" THEN [text |-> <<>>, html |-> BodyOf(m)]
    ELSE [text |-> <<>>, html |-> <<>>]

\* lines 221-257: text and html before truncation
SelectBodies(m) ==
    IF is_multipart(m) THEN ScanParts(walk(m), <<>>, <<>>) ELSE SinglePart(m)

\* the part a field was last assigned from, as a sequence of at most one part
NoSource == <<>>

RECURSIVE ScanSources(_, _, _, _, _)
\* lines 225-243 again, keeping beside text and html the part each of them
\* was assigned from
ScanSources(parts, text, html, tsrc, hsrc) ==
    IF parts = <<>> THEN [text |-> tsrc, html |-> hsrc]
    ELSE LET part == Head(parts)
         IN  IF Skipped(part) THEN ScanSources(Tail(parts), text, html, tsrc, hsrc)
             ELSE LET tt    == Takes(part, "text/plain", text)
                      th    == Takes(part, "text/html", html)
                      text2 == IF tt THEN BodyOf(part) ELSE text
                      html2 == IF th THEN BodyOf(part) ELSE html
                      tsrc2 == IF tt THEN <<part>> ELSE tsrc
                      hsrc2 == IF th THEN <<part>> ELSE hsrc
                  IN  IF text2 # <<>> /\ html2 # <<>>
                      THEN [text |-> tsrc2, html |-> hsrc2]
                      ELSE ScanSources(Tail(parts), text2, html2, tsrc2, hsrc2)

\* lines 221-257: the parts text and html are assigned from
BodySources(m) ==
    IF is_multipart(m) THEN ScanSources(walk(m), <<>>, <<>>, NoSource, NoSource)
    ELSE [text |-> IF get_content_type(m) = "text/plain" THEN <<m>> ELSE NoSource,
          html |-> IF get_content_type(m) = "text/html" THEN <<m>> ELSE NoSource]

\* Truncate cutting a body of exactly max_chars characters too
Truncate_AtLimit(body, max_chars) ==
    IF max_chars > 0 /\ body # <<>> /\ Len(body) >= max_chars
    THEN SubSeq(body, 1, max_chars) \o Marker
    ELSE body

\* lines 259-263, for one of the two fields
Truncate(body, max_chars) ==
    IF max_chars > 0 /\ body # <<>> /\ Len(body) > max_chars
    THEN SubSeq(body, 1, max_chars) \o Marker
    ELSE body

extract_bodies(m, max_chars) ==
    [text |-> Truncate(SelectBodies(m).text, max_chars),
     html |-> Truncate(SelectBodies(m).html, max_chars)]

-----------------------------------------------------------------------------
(* Messages and arguments the operations are applied to *)

Min(a, b) == IF a <= b THEN a ELSE b

\* n distinct bytes, so that a slice shows which bytes it holds
Bytes(n) == [i \in 1..n |-> i]

Leaf(ct, d, f, cs, pl) ==
    [ctype |-> ct, disp |-> d, filename |-> f, charset |-> cs, payload |-> pl,
     multipart |-> FALSE, kids |-> <<>>]

Container(ct, d, f, ks) ==
    [ctype |-> ct, disp |-> d, filename |-> f, charset |-> None, payload |-> <<>>,
     multipart |-> TRUE, kids |-> ks]

SeqsUpTo(S, n) == UNION {[1..k -> S] : k \in 1..n}

\* what get_filename() of a part may return
Filenames == {None, "", "a.txt", "b.txt"}

\* Chunking universe: few parts, payloads of every length up to MaxPayload.
ChunkLeaves ==
    {Leaf("application/pdf", "attachment", f, None, Bytes(n)) :
        f \in Filenames, n \in 0..MaxPayload}

ChunkMessages ==
    ChunkLeaves \cup
    {Container("multipart/mixed", None, f, ks) :
        f \in {None, "a.txt"}, ks \in SeqsUpTo(ChunkLeaves, MaxChunkKids)}

ChunkArgs ==
    [attachment_index : -1..(MaxChunkKids + 1),
     filename         : {None, "", "a.txt", "c.txt"},
     offset_bytes     : -1..(MaxPayload + 1),
     max_bytes        : -1..(MaxPayload + 1)]

\* Selection universe: up to MaxKids sub-parts, each a leaf or a nested
\* multipart holding one leaf; every leaf holds one byte.
SelLeaves ==
    {Leaf("application/pdf", "attachment", f, None, Bytes(1)) : f \in Filenames}

SelNested ==
    {Container("multipart/alternative", None, f, <<l>>) :
        f \in {None, "b.txt"}, l \in SelLeaves}

SelMessages ==
    SelLeaves \cup
    {Container("multipart/mixed", None, f, ks) :
        f \in {None, "a.txt"}, ks \in SeqsUpTo(SelLeaves \cup SelNested, MaxKids)}

\* indices from -1 to one past the most attachments a message can hold
SelArgs ==
    [attachment_index : -1..(2 * MaxKids + 1),
     filename         : {None, "", "a.txt", "b.txt", "c.txt"},
     offset_bytes     : {-1, 0, 2},
     max_bytes        : {0, 1}]

\* Body universe.  A payload starts with a byte >= 128, so that decoding
\* shows; text/plain parts declare ISO-8859-1, text/html parts a charset
\* Python does not know, so that both decoding paths are taken.
BodyBytes(n) == [i \in 1..n |-> IF i = 1 THEN 233 ELSE 96 + i]

CharsetOf(ctype) == IF ctype = "text/plain" THEN "iso-8859-1" ELSE "x-unknown"

BodyLeaves ==
    {Leaf(ct, d, f, CharsetOf(ct), BodyBytes(n)) :
        ct \in {"text/plain", "text/html"}, d \in {None, "attachment", "inline"},
        f \in {None, "a.txt"}, n \in 0..MaxBody}

\* a nested multipart, plain or itself an attachment, around one body part
\* of one character
BodyNested ==
    {Container("multipart/alternative", c[1], c[2],
               <<Leaf(ct, None, None, CharsetOf(ct), BodyBytes(1))>>) :
        c \in {<<None, None>>, <<"attachment", "a.txt">>},
        ct \in {"text/plain", "text/html"}}

BodyMessages ==
    BodyLeaves \cup
    {Container("multipart/mixed", None, None, ks) :
        ks \in SeqsUpTo(BodyLeaves \cup BodyNested, MaxBodyKids)}

BodyArgs == [max_chars : 0..(MaxBody + 1)]

-----------------------------------------------------------------------------
(* State machine *)

NoArgs == [attachment_index |-> 0, filename |-> None, offset_bytes |-> 0, max_bytes |-> 0]
NoRes == [err |-> "idle"]
NotListed == [known |-> FALSE, items |-> <<>>]
NoPg ==
    [active |-> FALSE, attachment_index |-> 0, filename |-> None, max_bytes |-> 0,
     offset_bytes |-> 0, content |-> <<>>, calls |-> 0, done |-> FALSE,
     failed |-> FALSE]

\* imap_connect has not been entered: the configuration is ImapConfig's
\* default, no client exists, nothing was called, logged or raised
NoOutcome == [kind |-> "none", exc |-> None, value |-> None]
NoSession ==
    [pc |-> "idle", config |-> [ssl |-> TRUE, starttls |-> FALSE], created |-> FALSE,
     events |-> <<>>, log |-> <<>>, pending |-> None, result |-> None,
     outcome |-> NoOutcome]

\* one call of get_attachment_bytes on the parsed message
GetAttachmentBytes(A) ==
    /\ op = "idle"
    /\ \E a \in A :
         /\ args' = a
         /\ res' = get_attachment_bytes(msg, a.attachment_index, a.filename,
                                        a.offset_bytes, a.max_bytes)
    /\ op' = "get_attachment_bytes"
    /\ UNCHANGED <<msg, listing, pg, session>>

\* the call has returned (or raised); nothing is kept between calls
Return ==
    /\ op # "idle"
    /\ op' = "idle"
    /\ args' = NoArgs
    /\ res' = NoRes
    /\ UNCHANGED <<msg, listing, pg, session>>

\* one call of list_attachments; the caller keeps the listing
ListAttachments ==
    /\ op = "idle"
    /\ op' = "list_attachments"
    /\ args' = NoArgs
    /\ res' = [err |-> "none"]
    /\ listing' = [known |-> TRUE, items |-> list_attachments(msg)]
    /\ UNCHANGED <<msg, pg, session>>

ChunkInit ==
    /\ msg \in ChunkMessages
    /\ op = "idle"
    /\ args = NoArgs
    /\ res = NoRes
    /\ listing = NotListed
    /\ pg = NoPg
    /\ session = NoSession

ChunkCall == GetAttachmentBytes(ChunkArgs)

ChunkNext == ChunkCall \/ Return

SpecChunk == ChunkInit /\ [][ChunkNext]_vars

\* one call of extract_bodies
ExtractBodies ==
    /\ op = "idle"
    /\ \E a \in BodyArgs :
         /\ args' = a
         /\ res' = [err |-> "none", body |-> extract_bodies(msg, a.max_chars)]
    /\ op' = "extract_bodies"
    /\ UNCHANGED <<msg, listing, pg, session>>

BodyInit ==
    /\ msg \in BodyMessages
    /\ op = "idle"
    /\ args = NoArgs
    /\ res = NoRes
    /\ listing = NotListed
    /\ pg = NoPg
    /\ session = NoSession

BodyNext == ExtractBodies \/ Return

SpecBody == BodyInit /\ [][BodyNext]_vars

SelInit ==
    /\ msg \in SelMessages
    /\ op = "idle"
    /\ args = NoArgs
    /\ res = NoRes
    /\ listing = NotListed
    /\ pg = NoPg
    /\ session = NoSession

SelCall == GetAttachmentBytes(SelArgs)

SelNext == SelCall \/ ListAttachments \/ Return

SpecSelect == SelInit /\ [][SelNext]_vars

-----------------------------------------------------------------------------
(* A caller downloading one attachment in chunks: it keeps nothing but the  *)
(* selector, the chunk size, next_offset_bytes of the previous response and *)
(* the bytes received so far.                                               *)

PageMessages ==
    ChunkLeaves \cup
    {Container("multipart/mixed", None, f, <<l>>) :
        f \in {None, "a.txt"}, l \in ChunkLeaves}

PageSessions ==
    [attachment_index : 0..2,
     filename         : {None, "a.txt", "c.txt"},
     max_bytes        : 1..(MaxPayload + 1)]

\* the caller picks an attachment and a chunk size and starts at offset 0
StartDownload ==
    /\ ~pg.active
    /\ \E s \in PageSessions :
         pg' = [NoPg EXCEPT !.active = TRUE,
                            !.attachment_index = s.attachment_index,
                            !.filename = s.filename,
                            !.max_bytes = s.max_bytes]
    /\ UNCHANGED <<msg, op, args, res, listing, session>>

\* one more call, at the offset the previous response gave
DownloadChunk ==
    /\ pg.active /\ ~pg.done /\ ~pg.failed
    /\ args' = [attachment_index |-> pg.attachment_index, filename |-> pg.filename,
                offset_bytes |-> pg.offset_bytes, max_bytes |-> pg.max_bytes]
    /\ res' = get_attachment_bytes(msg, pg.attachment_index, pg.filename,
                                   pg.offset_bytes, pg.max_bytes)
    /\ pg' = IF res'.err # "none"
             THEN [pg EXCEPT !.failed = TRUE]
             ELSE [pg EXCEPT !.offset_bytes = res'.next_offset_bytes,
                             !.content = @ \o res'.content_bytes,
                             !.calls = Min(@ + 1, MaxPayload + 2),
                             !.done = res'.done]
    /\ op' = "get_attachment_bytes"
    /\ UNCHANGED <<msg, listing, session>>

PageNext == StartDownload \/ DownloadChunk

\* the caller goes on calling until it sees done (or an error)
PageInit ==
    /\ msg \in PageMessages
    /\ op = "idle"
    /\ args = NoArgs
    /\ res = NoRes
    /\ listing = NotListed
    /\ pg = NoPg
    /\ session = NoSession

SpecPage == PageInit /\ [][PageNext]_vars /\ WF_vars(DownloadChunk)

-----------------------------------------------------------------------------
(* Envelope metadata: _decode_mime_words, _format_address, envelope_to_dict *)

MaxWords == 2
MaxAddrs == 1

\* a call that returned a value, and one that raised an exception
Returned(v) == [err |-> "none", value |-> v]
Raised(kind) == [err |-> kind]

\* A header value is None, a str (code points) or bytes.  A bytes header is
\* held as the words email.header's ecre pattern splits it into: runs of
\* bytes outside encoded-words ("raw") and encoded-words =?charset?q|b?...?=
\* with the bytes their payload stands for.  defect marks a base64 text
\* that binascii rejects even after padding; a malformed text that the
\* decoders repair or keep literally is the same as a well-formed one of
\* the bytes it yields.
HeaderNone == [kind |-> "none", text |-> <<>>, words |-> <<>>]
HeaderStr(t) == [kind |-> "str", text |-> t, words |-> <<>>]
HeaderBytes(ws) == [kind |-> "bytes", text |-> <<>>, words |-> ws]

RawWord(b) == [enc |-> "raw", charset |-> None, payload |-> b, defect |-> FALSE]
EncodedWord(e, cs, pl, bad) == [enc |-> e, charset |-> cs, payload |-> pl, defect |-> bad]

RECURSIVE Concat(_)
\* "".join(parts)
Concat(parts) == IF parts = <<>> THEN <<>> ELSE Head(parts) \o Concat(Tail(parts))

\* line 71: value.decode("utf-8", errors="replace"), word by word: the
\* text of an encoded-word is ASCII, the bytes of a raw run are decoded
HeaderText(ws) ==
    [i \in 1..Len(ws) |->
        IF ws[i].enc = "raw"
        THEN [ws[i] EXCEPT !.payload = Decode(ws[i].payload, "utf-8")]
        ELSE ws[i]]

\* the ASCII code of a hexadecimal digit
HexDigit(n) == IF n < 10 THEN 48 + n ELSE 87 + n

\* bytes(word, "raw-unicode-escape") in decode_header: a code point below
\* 256 is one byte, a higher one (below 65536) the six bytes of \uXXXX
RawUnicodeEscape(text) ==
    Concat([i \in 1..Len(text) |->
        IF text[i] < 256 THEN <<text[i]>>
        ELSE <<92, 117, HexDigit((text[i] \div 4096) % 16), HexDigit((text[i] \div 256) % 16),
               HexDigit((text[i] \div 16) % 16), HexDigit(text[i] % 16)>>])

RECURSIVE Collapse(_)
\* decode_header: consecutive words of one charset become one chunk; raw
\* runs are joined by a space
Collapse(chunks) ==
    IF Len(chunks) <= 1 THEN chunks
    ELSE IF chunks[1].charset = chunks[2].charset
         THEN Collapse(<<[chunk   |-> chunks[1].chunk
                                      \o (IF chunks[1].charset = None THEN <<32>> ELSE <<>>)
                                      \o chunks[2].chunk,
                          charset |-> chunks[1].charset]>>
                       \o SubSeq(chunks, 3, Len(chunks)))
         ELSE <<chunks[1]>> \o Collapse(Tail(chunks))

\* email.header.decode_header on the decoded header: without encoded-word
\* the header itself as one str chunk; a base64 text that cannot be decoded
\* raises HeaderParseError; otherwise the chunks as bytes with their charset
decode_header(ws) ==
    IF \A i \in 1..Len(ws) : ws[i].enc = "raw"
    THEN Returned(<<[str |-> TRUE, chunk |-> Concat([i \in 1..Len(ws) |-> ws[i].payload]),
                     charset |-> None]>>)
    ELSE IF \E i \in 1..Len(ws) : ws[i].enc = "b" /\ ws[i].defect
    THEN Raised("HeaderParseError")
    ELSE LET bytes == Collapse([i \in 1..Len(ws) |->
                         [chunk   |-> IF ws[i].enc = "raw" THEN RawUnicodeEscape(ws[i].payload)
                                      ELSE ws[i].payload,
                          charset |-> ws[i].charset]])
         IN  Returned([i \in 1..Len(bytes) |->
                         [str |-> FALSE, chunk |-> bytes[i].chunk, charset |-> bytes[i].charset]])

\* lines 77-81: a str chunk as it is; a bytes chunk decoded with its charset
\* or UTF-8.  bytes.decode looks the codec up, and raises LookupError for a
\* name it does not know, unless the bytes are empty.
DecodeChunk(c) ==
    LET enc == IF c.charset \in {None, ""} THEN "utf-8" ELSE c.charset
    IN  IF c.str \/ c.chunk = <<>> THEN Returned(c.chunk)
        ELSE IF enc \notin KnownCharsets THEN Raised("LookupError")
        ELSE Returned(Decode(c.chunk, enc))

RECURSIVE DecodeChunks(_)
\* lines 75-82: the loop over the chunks and the join; the first exception
\* ends the loop
DecodeChunks(chunks) ==
    IF chunks = <<>> THEN Returned(<<>>)
    ELSE LET first == DecodeChunk(Head(chunks))
         IN  IF first.err # "none" THEN first
             ELSE LET rest == DecodeChunks(Tail(chunks))
                  IN  IF rest.err # "none" THEN rest
                      ELSE Returned(first.value \o rest.value)

\* lines 63-82
decode_mime_words(value) ==
    IF value.kind = "none" THEN Returned(<<>>)
    ELSE IF value.kind = "str" THEN Returned(value.text)
    ELSE LET chunks == decode_header(HeaderText(value.words))
         IN  IF chunks.err # "none" THEN chunks ELSE DecodeChunks(chunks.value)

\* A subfield of an address (name, mailbox, host) is None, a str or bytes.
FieldNone == [kind |-> "none", data |-> <<>>]
FieldStr(t) == [kind |-> "str", data |-> t]
FieldBytes(b) == [kind |-> "bytes", data |-> b]

\* `if mailbox and host`, `if name`: neither None nor empty
Nonempty(f) == f.kind # "none" /\ f.data # <<>>

\* lines 95-96: bytes.decode() of bytes, which is strict UTF-8 and raises
\* UnicodeDecodeError on a byte that is not UTF-8; str() of anything else
StrictText(f) ==
    IF f.kind = "bytes" /\ \E i \in 1..Len(f.data) : f.data[i] >= 128
    THEN Raised("UnicodeDecodeError")
    ELSE Returned(f.data)

\* line 101: name.decode(errors="replace") of bytes; str() of anything else
DisplayText(f) == IF f.kind = "bytes" THEN Decode(f.data, "utf-8") ELSE f.data

NoAddress == [present |-> FALSE, name |-> FieldNone, mailbox |-> FieldNone, host |-> FieldNone]
Address(n, mb, hs) == [present |-> TRUE, name |-> n, mailbox |-> mb, host |-> hs]

\* lines 85-105
format_address(addr) ==
    IF ~addr.present THEN Returned(<<>>)
    ELSE LET hasEmail == Nonempty(addr.mailbox) /\ Nonempty(addr.host)
             mb       == StrictText(addr.mailbox)
             hs       == StrictText(addr.host)
             display  == IF Nonempty(addr.name) THEN DisplayText(addr.name) ELSE <<>>
         IN  IF hasEmail /\ mb.err # "none" THEN mb
             ELSE IF hasEmail /\ hs.err # "none" THEN hs
             ELSE LET email_addr == IF hasEmail THEN mb.value \o <<64>> \o hs.value ELSE <<>>
                  IN  IF display # <<>> /\ email_addr # <<>>
                      THEN Returned(display \o <<32, 60>> \o email_addr \o <<62>>)
                      ELSE IF email_addr # <<>> THEN Returned(email_addr)
                      ELSE Returned(display)

\* an address list of an envelope is None or a tuple of addresses
NoList == [present |-> FALSE, items |-> <<>>]
AddressList(as) == [present |-> TRUE, items |-> as]

RECURSIVE FormatAll(_)
\* line 116: the list comprehension; the first exception ends it
FormatAll(as) ==
    IF as = <<>> THEN Returned(<<>>)
    ELSE LET first == format_address(Head(as))
         IN  IF first.err # "none" THEN first
             ELSE LET rest == FormatAll(Tail(as))
                  IN  IF rest.err # "none" THEN rest
                      ELSE Returned(<<first.value>> \o rest.value)

\* lines 113-116: _addr_list
addr_list(value) ==
    IF ~value.present \/ value.items = <<>> THEN Returned(<<>>) ELSE FormatAll(value.items)

\* datetime.isoformat() of a date, given as its day number
isoformat(d) == [isoformat |-> d]

NoDate == [present |-> FALSE, day |-> 0]
Date(d) == [present |-> TRUE, day |-> d]

NoEnvelope ==
    [present |-> FALSE, date |-> NoDate, subject |-> HeaderNone, from_ |-> NoList,
     to |-> NoList, cc |-> NoList, message_id |-> HeaderNone]
Envelope(d, s, f, t, c, mid) ==
    [present |-> TRUE, date |-> d, subject |-> s, from_ |-> f, to |-> t, cc |-> c,
     message_id |-> mid]

\* the empty dict, as the function with no key
EmptyDict == <<>>

\* lines 108-125: the fields are computed in the order date, subject, from,
\* to, cc, message_id, and the first exception leaves the function
envelope_to_dict(envelope) ==
    IF ~envelope.present THEN Returned(EmptyDict)
    ELSE LET subject    == decode_mime_words(envelope.subject)
             from       == addr_list(envelope.from_)
             to         == addr_list(envelope.to)
             cc         == addr_list(envelope.cc)
             message_id == decode_mime_words(envelope.message_id)
         IN  IF subject.err # "none" THEN subject
             ELSE IF from.err # "none" THEN from
             ELSE IF to.err # "none" THEN to
             ELSE IF cc.err # "none" THEN cc
             ELSE IF message_id.err # "none" THEN message_id
             ELSE Returned([date       |-> IF envelope.date.present
                                           THEN isoformat(envelope.date.day) ELSE None,
                            subject    |-> subject.value,
                            from       |-> from.value,
                            to         |-> to.value,
                            cc         |-> cc.value,
                            message_id |-> message_id.value])

\* Header universe: up to MaxWords words, no two raw runs side by side.
\* Raw runs hold an ASCII byte or a byte that is not UTF-8; payloads are
\* empty, ASCII or a byte >= 128; charsets are absent (""), known or unknown.
RawWords == {RawWord(b) : b \in {<<97>>, <<255>>}}

EncodedWords ==
    {EncodedWord("q", cs, pl, FALSE) :
        cs \in {"", "utf-8", "iso-8859-1", "x-unknown"}, pl \in {<<>>, <<98>>, <<233>>}}
    \cup
    {EncodedWord("b", cs, pl, bad) :
        cs \in {"", "utf-8", "iso-8859-1", "x-unknown"}, pl \in {<<>>, <<98>>, <<233>>},
        bad \in BOOLEAN}

HeaderWords ==
    {ws \in {<<>>} \cup SeqsUpTo(RawWords \cup EncodedWords, MaxWords) :
        \A i \in 1..(Len(ws) - 1) : ~(ws[i].enc = "raw" /\ ws[i + 1].enc = "raw")}

\* "=?x?=" as a str, which is returned as it is
HeaderValues ==
    {HeaderNone, HeaderStr(<<>>), HeaderStr(<<61, 63, 120, 63, 61>>)}
    \cup {HeaderBytes(ws) : ws \in HeaderWords}

Fields ==
    {FieldNone, FieldStr(<<>>), FieldStr(<<97>>),
     FieldBytes(<<>>), FieldBytes(<<97>>), FieldBytes(<<255>>)}

Addresses ==
    {NoAddress} \cup {Address(n, mb, hs) : n \in Fields, mb \in Fields, hs \in Fields}

\* Envelope universe: a few headers and addresses of each outcome
EnvHeaders ==
    {HeaderNone,
     HeaderBytes(<<RawWord(<<97>>)>>),
     HeaderBytes(<<EncodedWord("q", "x-unknown", <<98>>, FALSE)>>),
     HeaderBytes(<<EncodedWord("b", "utf-8", <<98>>, TRUE)>>)}

EnvAddresses ==
    {Address(FieldBytes(<<97>>), FieldBytes(<<97>>), FieldBytes(<<97>>)),
     Address(FieldNone, FieldBytes(<<255>>), FieldBytes(<<97>>)),
     Address(FieldBytes(<<255>>), FieldNone, FieldNone)}

EnvLists ==
    {NoList, AddressList(<<>>)} \cup {AddressList(as) : as \in SeqsUpTo(EnvAddresses, MaxAddrs)}

Envelopes ==
    {NoEnvelope} \cup
    {Envelope(d, s, f, t, c, mid) :
        d \in {NoDate, Date(1)}, s \in EnvHeaders, f \in EnvLists, t \in EnvLists,
        c \in EnvLists, mid \in {HeaderNone, HeaderBytes(<<RawWord(<<97>>)>>)}}

\* no message takes part in these calls
NoMessage == Leaf("text/plain", None, None, None, <<>>)

\* one call of _decode_mime_words
DecodeMimeWords ==
    /\ op = "idle"
    /\ \E v \in HeaderValues :
         /\ args' = [value |-> v]
         /\ res' = decode_mime_words(v)
    /\ op' = "_decode_mime_words"
    /\ UNCHANGED <<msg, listing, pg, session>>

\* one call of _format_address
FormatAddress ==
    /\ op = "idle"
    /\ \E a \in Addresses :
         /\ args' = [addr |-> a]
         /\ res' = format_address(a)
    /\ op' = "_format_address"
    /\ UNCHANGED <<msg, listing, pg, session>>

\* one call of envelope_to_dict
EnvelopeToDict ==
    /\ op = "idle"
    /\ \E e \in Envelopes :
         /\ args' = [envelope |-> e]
         /\ res' = envelope_to_dict(e)
    /\ op' = "envelope_to_dict"
    /\ UNCHANGED <<msg, listing, pg, session>>

MetaInit ==
    /\ msg = NoMessage
    /\ op = "idle"
    /\ args = NoArgs
    /\ res = NoRes
    /\ listing = NotListed
    /\ pg = NoPg
    /\ session = NoSession

MetaNext == DecodeMimeWords \/ FormatAddress \/ EnvelopeToDict \/ Return

SpecMeta == MetaInit /\ [][MetaNext]_vars

-----------------------------------------------------------------------------
(* imap_connect and the with-block of a caller (server.py)                  *)
(*                                                                          *)
(* session.pc is the position of the caller and of the generator behind     *)
(* the context manager; session.events lists the calls made on the client   *)
(* and what the with-body raised by itself, in order, each with its         *)
(* success; session.log holds the error and warning lines written.  An      *)
(* exception is named by the place that raised it.                          *)

\* most calls a with-body makes on the client
MaxOps == 2

\* ImapConfig: ssl and starttls
Configs == [ssl : BOOLEAN, starttls : BOOLEAN]

\* the calls the with-bodies of server.py make on the client
ClientOps == {"select_folder", "search", "fetch"}

\* what a with-body computes: search_messages returns [] or rows
Results == {"empty", "rows"}

Event(name, ok) == [name |-> name, ok |-> ok]

\* how the with statement ends for the caller
Propagates(exc) == [kind |-> "raised", exc |-> exc, value |-> None]
Completes(r) == [kind |-> "returned", exc |-> None, value |-> r]

\* `except Exception` catches what the client raises and what a body
\* raises, but not a BaseException such as KeyboardInterrupt ("interrupt")
IsException(exc) == exc # "interrupt"

\* line 37: `if (not config.ssl) and config.starttls`
WantsStartTLS(config) == ~config.ssl /\ config.starttls

\* lines 47-49 and then 50: an exception in the try block, or thrown in at
\* the yield, is logged when it is an Exception and raised again; control
\* goes to the finally clause with the exception pending
Except(s, exc) ==
    [s EXCEPT !.pending = exc,
              !.log     = IF IsException(exc)
                          THEN Append(@, "error: Error during IMAP operation") ELSE @,
              !.pc      = "finally"]

\* Finally with a failure of logout leaving the with statement
Finally_Unguarded(s, ok) ==
    [s EXCEPT !.events  = Append(@, Event("logout", ok)),
              !.pc      = "done",
              !.outcome = IF ~ok THEN Propagates("logout")
                          ELSE IF s.pending # None THEN Propagates(s.pending)
                          ELSE Completes(s.result)]

\* lines 50-56: client.logout(), a failure of which is logged as a warning
\* and dropped; then the pending exception goes on to the caller, or the
\* with statement ends with what the body computed
Finally(s, ok) ==
    [s EXCEPT !.events  = Append(@, Event("logout", ok)),
              !.log     = IF ok THEN @ ELSE Append(@, "warning: Error during logout"),
              !.pc      = "done",
              !.outcome = IF s.pending # None THEN Propagates(s.pending)
                          ELSE Completes(s.result)]

\* the calls the with-body has made so far
BodyEvents(s) == SelectSeq(s.events, LAMBDA e : e.name \in ClientOps)

\* lines 23-34: IMAPClient(...); a failure is logged and raised again, and
\* the with-body is never entered
Connect ==
    /\ session.pc = "idle"
    /\ \E config \in Configs, ok \in BOOLEAN :
         session' =
            IF ok
            THEN [NoSession EXCEPT !.config  = config,
                                   !.created = TRUE,
                                   !.pc      = IF WantsStartTLS(config)
                                               THEN "starttls" ELSE "login"]
            ELSE [NoSession EXCEPT !.config  = config,
                                   !.log     = <<"error: Failed to create IMAPClient">>,
                                   !.pc      = "done",
                                   !.outcome = Propagates("connect")]
    /\ UNCHANGED <<msg, op, args, res, listing, pg>>

\* lines 37-40: client.starttls()
StartTLS ==
    /\ session.pc = "starttls"
    /\ \E ok \in BOOLEAN :
         LET called == [session EXCEPT !.events = Append(@, Event("starttls", ok))]
         IN  session' = IF ok THEN [called EXCEPT !.pc = "login"]
                        ELSE Except(called, "starttls")
    /\ UNCHANGED <<msg, op, args, res, listing, pg>>

\* lines 42-46: client.login(...), then yield client: the with-body begins
Login ==
    /\ session.pc = "login"
    /\ \E ok \in BOOLEAN :
         LET called == [session EXCEPT !.events = Append(@, Event("login", ok))]
         IN  session' = IF ok THEN [called EXCEPT !.pc = "body"]
                        ELSE Except(called, "login")
    /\ UNCHANGED <<msg, op, args, res, listing, pg>>

\* server.py, inside `with`: one call on the client; its exception leaves
\* the body and is thrown into the generator at the yield
BodyCall ==
    /\ session.pc = "body"
    /\ Len(BodyEvents(session)) < MaxOps
    /\ \E name \in ClientOps, ok \in BOOLEAN :
         LET called == [session EXCEPT !.events = Append(@, Event(name, ok))]
         IN  session' = IF ok THEN called ELSE Except(called, name)
    /\ UNCHANGED <<msg, op, args, res, listing, pg>>

\* the with-body raises by itself: an Exception ("body") or a BaseException
\* that is none ("interrupt")
BodyRaise ==
    /\ session.pc = "body"
    /\ \E exc \in {"body", "interrupt"} :
         session' = Except([session EXCEPT !.events = Append(@, Event(exc, FALSE))], exc)
    /\ UNCHANGED <<msg, op, args, res, listing, pg>>

\* the with-body ends, by its last statement or by `return`: the generator
\* goes on after the yield, out of the try block and into finally
BodyEnd ==
    /\ session.pc = "body"
    /\ \E r \in Results :
         session' = [session EXCEPT !.result = r, !.pc = "finally"]
    /\ UNCHANGED <<msg, op, args, res, listing, pg>>

\* lines 50-56
Logout ==
    /\ session.pc = "finally"
    /\ \E ok \in BOOLEAN : session' = Finally(session, ok)
    /\ UNCHANGED <<msg, op, args, res, listing, pg>>

\* the caller has left the with statement; no session is kept
Leave ==
    /\ session.pc = "done"
    /\ session' = NoSession
    /\ UNCHANGED <<msg, op, args, res, listing, pg>>

SessionInit ==
    /\ msg = NoMessage
    /\ op = "idle"
    /\ args = NoArgs
    /\ res = NoRes
    /\ listing = NotListed
    /\ pg = NoPg
    /\ session = NoSession

SessionNext ==
    Connect \/ StartTLS \/ Login \/ BodyCall \/ BodyRaise \/ BodyEnd \/ Logout \/ Leave

SpecSession == SessionInit /\ [][SessionNext]_vars

-----------------------------------------------------------------------------
(* What a state shows about the last call *)

Called == op = "get_attachment_bytes"
Succeeded == Called /\ res.err = "none"
OffsetErrors == {"offset_negative", "offset_out_of_range"}
SelectionErrors == {"no_attachments", "filename_not_found", "index_out_of_range"}

\* the attachment parts of the message, and the part a successful call
\* reports by its index
Attachments == iter_attachment_parts(msg)
ReportedPart == Attachments[res.index + 1]

-----------------------------------------------------------------------------
(* C1 *)

\* the selection of a download, and the full payload of the part it selects
PageSelection == SelectAttachment(Attachments, pg.attachment_index, pg.filename)
PageSelectable == pg.active /\ Attachments # <<>> /\ PageSelection.err = "none"
PagePayload == get_payload_or_empty(Attachments[PageSelection.index + 1])

\* C1: a download of a selectable attachment with a fixed max_bytes > 0 that
\* starts at offset 0 and always passes the previous next_offset_bytes never
\* gets an error, never gets a chunk that makes no progress while done is
\* false, receives only bytes of the payload in order, and reaches done =
\* true with the received bytes equal to the full decoded payload.
C1_PaginationCompletes ==
    /\ [](PageSelectable =>
            /\ ~pg.failed
            /\ pg.content = SubSeq(PagePayload, 1, pg.offset_bytes)
            /\ (Called /\ ~res.done) => res.returned_bytes > 0)
    /\ [](PageSelectable => <>(pg.done /\ pg.content = PagePayload))

\* a download that needed three calls and holds the whole payload
C1_Witness ==
    /\ PageSelectable
    /\ pg.done
    /\ pg.calls >= 3
    /\ pg.content = PagePayload

-----------------------------------------------------------------------------
(* C2 *)

\* C2: every successful get_attachment_bytes call has next_offset_bytes =
\* offset_bytes + returned_bytes, returned_bytes = len(content_bytes), done
\* exactly when next_offset_bytes >= size_bytes, and size_bytes the full
\* decoded length of the selected attachment whatever offset and max_bytes.
C2_ChunkArithmetic ==
    Succeeded =>
        /\ res.offset_bytes = args.offset_bytes
        /\ res.next_offset_bytes = args.offset_bytes + res.returned_bytes
        /\ res.returned_bytes = Len(res.content_bytes)
        /\ res.done = (res.next_offset_bytes >= res.size_bytes)
        /\ res.size_bytes = Len(get_payload_or_empty(ReportedPart))

\* a successful call that stops exactly at the end of a non-empty payload
\* after starting inside it
C2_Witness ==
    /\ Succeeded
    /\ args.offset_bytes > 0
    /\ res.returned_bytes > 0
    /\ res.next_offset_bytes = res.size_bytes
    /\ res.done

-----------------------------------------------------------------------------
(* C3 *)

\* C3: on success truncated is true exactly when the bytes from offset_bytes
\* to the end outnumber returned_bytes; with max_bytes > 0 the call returns
\* min(max_bytes, size_bytes - offset_bytes) bytes and truncated =
\* (size_bytes - offset_bytes > max_bytes); with max_bytes = 0 it returns
\* the whole remainder and truncated = false.
C3_Truncation ==
    Succeeded =>
        LET remaining == res.size_bytes - args.offset_bytes
        IN  /\ res.truncated = (remaining > res.returned_bytes)
            /\ args.max_bytes > 0 =>
                   /\ res.returned_bytes = Min(args.max_bytes, remaining)
                   /\ res.truncated = (remaining > args.max_bytes)
            /\ args.max_bytes = 0 =>
                   /\ res.returned_bytes = remaining
                   /\ ~res.truncated

\* a call whose remainder is exactly max_bytes: returned whole, not truncated
C3_Witness ==
    /\ Succeeded
    /\ args.max_bytes > 0
    /\ res.size_bytes - args.offset_bytes = args.max_bytes
    /\ ~res.truncated

-----------------------------------------------------------------------------
(* C4 *)

\* the selection of the last call, and the size of the part it selects
LastSelection == SelectAttachment(Attachments, args.attachment_index, args.filename)
Selected == Called /\ Attachments # <<>> /\ LastSelection.err = "none"
SelectedSize == Len(get_payload_or_empty(Attachments[LastSelection.index + 1]))

\* C4: once an attachment is selected the call fails with an offset error
\* exactly when offset_bytes < 0 or offset_bytes > size_bytes; every offset
\* in [0, size_bytes] succeeds, and at offset_bytes = size_bytes the result
\* has returned_bytes = 0, empty content_bytes, truncated = false, done = true.
C4_OffsetRange ==
    Selected =>
        /\ res.err \in OffsetErrors \cup {"none"}
        /\ (res.err \in OffsetErrors) =
               (args.offset_bytes < 0 \/ args.offset_bytes > SelectedSize)
        /\ args.offset_bytes = SelectedSize =>
               /\ res.err = "none"
               /\ res.returned_bytes = 0
               /\ res.content_bytes = <<>>
               /\ ~res.truncated
               /\ res.done

\* a read at the very end of a non-empty attachment with a positive cap
C4_Witness ==
    /\ Succeeded
    /\ res.size_bytes > 0
    /\ args.offset_bytes = res.size_bytes
    /\ args.max_bytes > 0

-----------------------------------------------------------------------------
(* C5 *)

\* the positions in the walk of the parts that carry a filename, counted
\* without going through the attachment list
NamedPositions == {i \in 1..Len(walk(msg)) : Truthy(walk(msg)[i].filename)}
AttachmentCount == Cardinality(NamedPositions)

\* C5: a call without filename fails with "no attachments" when the message
\* has no attachment part, whatever index, offset and max_bytes; otherwise
\* it fails with index-out-of-range, stating the attachment count, exactly
\* when attachment_index is outside [0, count), and for an index in range
\* no selection error is raised and the returned index is the requested
\* one; an invalid offset never turns a selection error into an offset one.
C5_IndexSelection ==
    (Called /\ args.filename = None) =>
        /\ AttachmentCount = 0 => res.err = "no_attachments"
        /\ AttachmentCount > 0 =>
              /\ (res.err = "index_out_of_range") =
                     (args.attachment_index < 0 \/ args.attachment_index >= AttachmentCount)
              /\ res.err = "index_out_of_range" =>
                     res.info = <<args.attachment_index, AttachmentCount>>
              /\ res.err \notin {"no_attachments", "filename_not_found"}
              /\ res.err = "none" => res.index = args.attachment_index

\* the last valid index of a message with several attachments is selected
C5_Witness ==
    /\ Succeeded
    /\ args.filename = None
    /\ AttachmentCount >= 3
    /\ res.index = AttachmentCount - 1

\* an index error raised although the offset is invalid too
C5_WitnessPrecedence ==
    /\ Called
    /\ args.filename = None
    /\ args.offset_bytes < 0
    /\ AttachmentCount > 0
    /\ res.err = "index_out_of_range"

-----------------------------------------------------------------------------
(* C6 *)

\* 0-based positions, in attachment order, of the parts named args.filename
Matching == {i \in 0..(Len(Attachments) - 1) : Attachments[i + 1].filename = args.filename}

\* C6: a call with a filename on a message that has attachments ignores
\* attachment_index: with no part of exactly that name it fails with
\* filename-not-found, never index-out-of-range; with one or more matches
\* it selects the first in traversal order and returns that part's position
\* in the attachment order.
C6_FilenameSelection ==
    (Called /\ args.filename # None /\ AttachmentCount > 0) =>
        /\ Matching = {} => res.err = "filename_not_found"
        /\ Matching # {} =>
              /\ res.err \notin SelectionErrors
              /\ res.err = "none" =>
                    /\ res.index \in Matching
                    /\ \A i \in Matching : res.index <= i
                    /\ res.filename = args.filename

\* two parts share the name, the first is not attachment 0, and the index
\* passed along is out of range
C6_Witness ==
    /\ Succeeded
    /\ args.filename # None
    /\ Cardinality(Matching) >= 2
    /\ res.index >= 1
    /\ args.attachment_index > Len(Attachments)

\* an absent filename together with an out-of-range index
C6_WitnessNotFound ==
    /\ Called
    /\ args.filename = "c.txt"
    /\ args.attachment_index >= AttachmentCount
    /\ AttachmentCount > 0
    /\ res.err = "filename_not_found"

-----------------------------------------------------------------------------
(* C7 *)

\* C7: list_attachments and get_attachment_bytes agree: the listing has
\* as many entries as get_attachment_bytes has valid indices, and entry i
\* has the filename, content_type and size_bytes that get_attachment_bytes
\* returns for attachment_index = i.
C7_IndexerAgreesWithExtractor ==
    (listing.known /\ Called /\ args.filename = None) =>
        /\ (res.err \notin SelectionErrors) =
               (args.attachment_index \in 0..(Len(listing.items) - 1))
        /\ res.err = "none" =>
              LET d == listing.items[res.index + 1]
              IN  /\ d.filename = res.filename
                  /\ d.content_type = res.content_type
                  /\ d.size_bytes = res.size_bytes

\* the listing was taken, then a named multipart part and a named leaf
\* after it were both there to be read; the leaf is read by index
C7_Witness ==
    /\ listing.known
    /\ Succeeded
    /\ args.filename = None
    /\ Len(listing.items) >= 3
    /\ res.index >= 1
    /\ res.content_type = "application/pdf"
    /\ listing.items[res.index].content_type = "multipart/alternative"

-----------------------------------------------------------------------------
(* C8 *)

\* C8 as stated: a message whose root part is not multipart has no
\* attachments, even when the root itself carries a filename: the listing
\* is empty and get_attachment_bytes fails with "no attachments".
C8_NonMultipartHasNoAttachments ==
    ~is_multipart(msg) =>
        /\ listing.known => listing.items = <<>>
        /\ Called => res.err = "no_attachments"

\* C8 amended: a non-multipart message has no attachments exactly when its
\* root part carries no filename (none, or an empty one); a non-multipart
\* root that carries a filename is itself the one attachment, listed alone
\* and selected by index 0 or by its name.
C8_NonMultipartRoot ==
    ~is_multipart(msg) =>
        IF Truthy(msg.filename)
        THEN /\ listing.known =>
                  listing.items = <<[filename |-> msg.filename,
                                     content_type |-> msg.ctype,
                                     size_bytes |-> Len(msg.payload)]>>
             /\ Called =>
                  /\ res.err # "no_attachments"
                  /\ (res.err = "index_out_of_range") =
                         (args.filename = None /\ args.attachment_index # 0)
                  /\ (res.err = "filename_not_found") =
                         (args.filename \notin {None, msg.filename})
                  /\ res.err = "none" =>
                         /\ res.index = 0
                         /\ res.filename = msg.filename
                         /\ res.size_bytes = Len(msg.payload)
        ELSE /\ listing.known => listing.items = <<>>
             /\ Called => res.err = "no_attachments"

\* a non-multipart root with a filename, listed and then read
C8_Witness ==
    /\ ~is_multipart(msg)
    /\ Truthy(msg.filename)
    /\ listing.known
    /\ Len(listing.items) = 1
    /\ Succeeded

\* a non-multipart root with an empty filename, listed and then asked for
C8_WitnessUnnamed ==
    /\ ~is_multipart(msg)
    /\ msg.filename = ""
    /\ listing.known
    /\ Called
    /\ res.err = "no_attachments"

-----------------------------------------------------------------------------
(* C9 *)

Extracted == op = "extract_bodies"

\* the rule of the claim, for a body and a cap
Capped(body, cap) ==
    IF cap = 0 \/ Len(body) <= cap THEN body ELSE SubSeq(body, 1, cap) \o Marker

\* C9: for every cap C >= 0 and every extracted body of length L the
\* output is the body unchanged when C = 0 or L <= C, and otherwise its
\* first C characters followed by "\n\n[truncated]"; text and html are
\* each treated by this rule on their own.
C9_BodyTruncation ==
    Extracted =>
        /\ res.body.text = Capped(SelectBodies(msg).text, args.max_chars)
        /\ res.body.html = Capped(SelectBodies(msg).html, args.max_chars)

\* text is cut, html is exactly as long as the cap and is left whole
C9_Witness ==
    /\ Extracted
    /\ args.max_chars > 0
    /\ Len(SelectBodies(msg).text) > args.max_chars
    /\ Len(res.body.text) = args.max_chars + Len(Marker)
    /\ Len(SelectBodies(msg).html) = args.max_chars
    /\ res.body.html = SelectBodies(msg).html

-----------------------------------------------------------------------------
(* C10 *)

\* positions in the walk of the parts of a type that are not skipped
Eligible(ctype) ==
    {i \in 1..Len(walk(msg)) :
        /\ walk(msg)[i].ctype = ctype
        /\ ~(walk(msg)[i].disp \in {"attachment", "inline"} /\ Truthy(walk(msg)[i].filename))}

\* the decoded content of the first eligible part of a type, "" without one
FirstContent(ctype) ==
    IF Eligible(ctype) = {} THEN <<>>
    ELSE BodyOf(walk(msg)[CHOOSE i \in Eligible(ctype) : \A j \in Eligible(ctype) : i <= j])

\* C10 as stated: for a multipart message text is the decoded content of the
\* first text/plain part in walk order that is not skipped, html that of the
\* first such text/html part, a part being skipped exactly when its
\* disposition is attachment or inline and it carries a filename; a later
\* part never replaces the first, and a type without eligible part gives "".
C10_FirstEligiblePart ==
    (Extracted /\ is_multipart(msg) /\ args.max_chars = 0) =>
        /\ res.body.text = FirstContent("text/plain")
        /\ res.body.html = FirstContent("text/html")

-----------------------------------------------------------------------------
(* C11 *)

\* the parts that supplied the characters returned in text and in html; a
\* field returned empty has no source
TextSources ==
    IF res.body.text = <<>> THEN {}
    ELSE {BodySources(msg).text[i] : i \in 1..Len(BodySources(msg).text)}

HtmlSources ==
    IF res.body.html = <<>> THEN {}
    ELSE {BodySources(msg).html[i] : i \in 1..Len(BodySources(msg).html)}

\* the part is one of those list_attachments enumerates
Enumerated(p) == \E i \in 1..Len(Attachments) : Attachments[i] = p

\* the fields come from the parts BodySources names
SourcesSupplyBodies ==
    Extracted =>
        /\ \A p \in TextSources : BodyOf(p) = SelectBodies(msg).text
        /\ \A p \in HtmlSources : BodyOf(p) = SelectBodies(msg).html

\* C11 as stated: no part that list_attachments enumerates (a part of the
\* walk carrying a filename) is the source of the text or html that
\* extract_bodies returns, whatever its content type and disposition.
C11_BodiesOnlyFromUnnamedParts ==
    Extracted =>
        \A p \in TextSources \cup HtmlSources : ~Enumerated(p)

-----------------------------------------------------------------------------
(* C12 *)

Decoded == op \in {"_decode_mime_words", "_format_address", "envelope_to_dict"}

\* C12 as stated: for every header value (absent, text or bytes, with valid
\* or invalid bytes, with encoded-words of any charset name, known or
\* unknown, or with a malformed payload) and every envelope whose address
\* subfields are text or arbitrary bytes, _decode_mime_words,
\* _format_address and envelope_to_dict return a value and raise nothing;
\* an absent header gives "" and an absent envelope the empty record.
C12_MetadataDecodingNeverRaises ==
    Decoded =>
        /\ res.err = "none"
        /\ (op = "_decode_mime_words" /\ args.value.kind = "none") => res.value = <<>>
        /\ (op = "envelope_to_dict" /\ ~args.envelope.present) => DOMAIN res.value = {}

-----------------------------------------------------------------------------
(* C13 *)

\* how often a call was made on the client
Count(name) == Len(SelectSeq(session.events, LAMBDA e : e.name = name))

\* what was raised before logout, in order, and the positions of logout
RaisedBeforeLogout == SelectSeq(session.events, LAMBDA e : ~e.ok /\ e.name # "logout")
LogoutPositions == {i \in 1..Len(session.events) : session.events[i].name = "logout"}

Exited == session.pc = "done"

\* C13: once the client has been created, logout is attempted exactly once
\* on every exit path (a failure of starttls, of login, of the with-body, or
\* its normal end), and never before the body has finished: it is the last
\* call, made only after the body has ended or raised.  A failure of logout
\* is swallowed: the caller gets the body's result, or the original exception
\* unchanged.  If creating the client fails, neither login nor logout is
\* attempted and the creation error propagates.
C13_SessionCleanup ==
    /\ (Exited /\ session.created) =>
          /\ Count("logout") = 1
          /\ IF RaisedBeforeLogout = <<>>
             THEN session.outcome = Completes(session.result) /\ session.result \in Results
             ELSE session.outcome = Propagates(RaisedBeforeLogout[1].name)
    /\ (Exited /\ ~session.created) =>
          /\ session.events = <<>>
          /\ session.outcome = Propagates("connect")
    /\ ~Exited => session.outcome = NoOutcome
    /\ LogoutPositions \subseteq {Len(session.events)}
    /\ LogoutPositions # {} => Exited
    /\ session.pc = "body" =>
          /\ Count("login") = 1
          /\ session.events[Len(session.events) - Len(BodyEvents(session))].name = "login"

\* the body raised after a call, logout failed too, and the caller got the
\* body's exception
C13_Witness ==
    /\ Exited
    /\ session.created
    /\ Len(BodyEvents(session)) > 0
    /\ RaisedBeforeLogout # <<>>
    /\ RaisedBeforeLogout[1].name = "body"
    /\ ~session.events[Len(session.events)].ok
    /\ session.outcome = Propagates("body")

\* the body ended normally, logout failed, and the caller got the result
C13_WitnessResult ==
    /\ Exited
    /\ session.created
    /\ RaisedBeforeLogout = <<>>
    /\ ~session.events[Len(session.events)].ok
    /\ session.outcome = Completes("rows")

\* creating the client failed
C13_WitnessNoClient == Exited /\ ~session.created

====
